---- MODULE Spec2Model ----
(***************************************************************************)
(* Verification model of cfromknecht/btcutil:                              *)
(*   - gcs query optimizer  (package gcs:  Optimize and its cost model)    *)
(*   - txsort               (package txsort: BIP 69 sorting of a MsgTx)    *)
(*                                                                         *)
(* float64 is modelled as IEEE 754 binary64: a 53 bit significand, round   *)
(* to nearest even, NaN and the two infinities.  TLC's integers are 32     *)
(* bits wide, so a significand is held as a little-endian sequence of      *)
(* limbs (a natural number in base 2^LimbBits).  The exponent is not       *)
(* range limited: for int arguments every intermediate value of Optimize   *)
(* lies far inside the binary64 range, except math.Exp of a hugely         *)
(* negative argument, whose underflow is absorbed by the following 1 - e.  *)
(***************************************************************************)
EXTENDS Integers, Sequences, FiniteSets, TLC

\* width of one limb of a multi-limb natural number
LimbBits == 13
Base == 2^LimbBits

\* significand width of float64
MantBits == 53

\* fraction bits of the fixed-point working format of math.Exp and math.Log2
WorkBits == MantBits + 27

(***************************************************************************)
(* Val({e : v \in {d}}) is e with v standing for the value of d: d is      *)
(* evaluated once, however often e uses v.  The numeric operators below    *)
(* bind their operands and intermediate results this way.                  *)
(***************************************************************************)
Val(S) == CHOOSE r \in S : TRUE

(***************************************************************************)
(* Natural numbers as limb sequences (least significant limb first, no     *)
(* high zero limbs, zero is the empty sequence).                           *)
(***************************************************************************)
BNorm(a0) ==
    Val({ Val({ IF nz = {} THEN <<>>
                ELSE SubSeq(a, 1, CHOOSE m \in nz : \A k \in nz : k <= m) :
                nz \in {{i \in 1..Len(a) : a[i] # 0}} }) :
          a \in {a0} })

RECURSIVE BFromInt(_)
BFromInt(n) == IF n = 0 THEN <<>> ELSE <<n % Base>> \o BFromInt(n \div Base)

Limb(a, i) == IF i >= 1 /\ i <= Len(a) THEN a[i] ELSE 0

\* carries propagated through a sequence of non-negative column values
RECURSIVE BCarryAt(_, _, _)
BCarryAt(cols, i, c) ==
    IF i > Len(cols) THEN BFromInt(c)
    ELSE Val({ <<t % Base>> \o BCarryAt(cols, i + 1, t \div Base) : t \in {cols[i] + c} })

BCarry(cols0) == Val({ BNorm(BCarryAt(cols, 1, 0)) : cols \in {cols0} })

BAdd(a0, b0) ==
    Val({ BCarry([i \in 1..(IF Len(a) >= Len(b) THEN Len(a) ELSE Len(b)) |->
                    Limb(a, i) + Limb(b, i)]) :
          a \in {a0}, b \in {b0} })

RECURSIVE BSubAt(_, _, _, _)
BSubAt(a, b, i, br) ==
    IF i > Len(a) THEN <<>>
    ELSE Val({ <<(t + Base) % Base>> \o BSubAt(a, b, i + 1, IF t < 0 THEN 1 ELSE 0) :
               t \in {a[i] - Limb(b, i) - br} })

\* a - b for a >= b
BSub(a0, b0) == Val({ BNorm(BSubAt(a, b, 1, 0)) : a \in {a0}, b \in {b0} })

RECURSIVE BCmpAt(_, _, _)
BCmpAt(a, b, i) ==
    IF i = 0 THEN 0
    ELSE IF a[i] < b[i] THEN -1
    ELSE IF a[i] > b[i] THEN 1
    ELSE BCmpAt(a, b, i - 1)

\* -1, 0, 1 as a < b, a = b, a > b
BCmp(a0, b0) ==
    Val({ IF Len(a) < Len(b) THEN -1
          ELSE IF Len(a) > Len(b) THEN 1
          ELSE BCmpAt(a, b, Len(a)) :
          a \in {a0}, b \in {b0} })

\* column k of the schoolbook product: the sum of a[i] * b[k + 1 - i]
RECURSIVE ColSum(_, _, _, _)
ColSum(a, b, k, i) ==
    IF i > Len(a) \/ i > k THEN 0
    ELSE (IF k + 1 - i <= Len(b) THEN a[i] * b[k + 1 - i] ELSE 0)
         + ColSum(a, b, k, i + 1)

BMul(a0, b0) ==
    Val({ BCarry([k \in 1..(Len(a) + Len(b)) |-> ColSum(a, b, k, 1)]) :
          a \in {a0}, b \in {b0} })

\* a * 2^k
BShl(a0, k0) ==
    Val({ IF a = <<>> THEN <<>>
          ELSE [i \in 1..(k \div LimbBits) |-> 0]
               \o BCarry([i \in 1..Len(a) |-> a[i] * (2^(k % LimbBits))]) :
          a \in {a0}, k \in {k0} })

\* floor(a / 2^k)
BShr(a0, k0) ==
    Val({ IF Len(a) <= k \div LimbBits THEN <<>>
          ELSE BNorm([i \in 1..(Len(a) - k \div LimbBits) |->
                        (a[i + k \div LimbBits] \div (2^(k % LimbBits)))
                        + (Limb(a, i + k \div LimbBits + 1) % (2^(k % LimbBits)))
                          * (2^(LimbBits - (k % LimbBits)))]) :
          a \in {a0}, k \in {k0} })

RECURSIVE IntBitLen(_)
IntBitLen(n) == IF n = 0 THEN 0 ELSE 1 + IntBitLen(n \div 2)

BBitLen(a0) ==
    Val({ IF a = <<>> THEN 0 ELSE (Len(a) - 1) * LimbBits + IntBitLen(a[Len(a)]) :
          a \in {a0} })

BOne == <<1>>

BIsOdd(a) == a # <<>> /\ a[1] % 2 = 1

RECURSIVE BToInt(_, _)
BToInt(a, i) == IF i > Len(a) THEN 0 ELSE a[i] + Base * BToInt(a, i + 1)

(***************************************************************************)
(* Loops are run by halving their index range: the first half is computed  *)
(* and the second half continues from its value, so the depth of           *)
(* evaluation is logarithmic in the number of steps.                       *)
(***************************************************************************)
\* one step of shift and subtract division by b, on <<quotient, remainder>>
BDivStep(b, sh, qr) ==
    Val({ IF BCmp(qr[2], d) >= 0
          THEN <<BAdd(qr[1], BShl(BOne, sh)), BSub(qr[2], d)>>
          ELSE qr :
          d \in {BShl(b, sh)} })

\* the steps for the shifts hi, hi - 1, ..., lo
RECURSIVE BDivSteps(_, _, _, _)
BDivSteps(b, hi, lo, qr) ==
    IF hi < lo THEN qr
    ELSE IF hi = lo THEN BDivStep(b, hi, qr)
    ELSE Val({ BDivSteps(b, (hi + lo + 1) \div 2 - 1, lo, h) :
               h \in {BDivSteps(b, hi, (hi + lo + 1) \div 2, qr)} })

\* <<floor(a / b), a mod b>>
BDivMod(a0, b0) ==
    Val({ BDivSteps(b, BBitLen(a) - BBitLen(b), 0, <<<<>>, a>>) : a \in {a0}, b \in {b0} })

RECURSIVE BDivSmallAt(_, _, _, _)
BDivSmallAt(a, d, i, rem) ==
    IF i = 0 THEN <<>>
    ELSE Val({ BDivSmallAt(a, d, i - 1, t % d) \o <<t \div d>> : t \in {rem * Base + a[i]} })

\* floor(a / d) for a machine integer 0 < d < Base
BDivSmall(a0, d) == Val({ BNorm(BDivSmallAt(a, d, Len(a), 0)) : a \in {a0} })

(***************************************************************************)
(* float64 values.  A finite value is s * m * 2^e with m either zero or    *)
(* exactly MantBits bits long; k tells finite, NaN, +Inf, -Inf apart.      *)
(***************************************************************************)
NaN == [k |-> "nan", s |-> 1, m |-> <<>>, e |-> 0]
PInf == [k |-> "inf", s |-> 1, m |-> <<>>, e |-> 0]
NInf == [k |-> "inf", s |-> -1, m |-> <<>>, e |-> 0]
Inf(s) == IF s = 1 THEN PInf ELSE NInf
Zero(s) == [k |-> "fin", s |-> s, m |-> <<>>, e |-> 0]

IsNaN(x) == x.k = "nan"
IsInf(x) == x.k = "inf"
IsFinite(x) == x.k = "fin"
IsZero(x) == x.k = "fin" /\ x.m = <<>>

Fin(s, m, e) == [k |-> "fin", s |-> s, m |-> m, e |-> e]

\* m, more than MantBits bits long, cut to MantBits bits and rounded to
\* nearest, ties to even; sticky tells that the exact value is above m
RoundLong(s, m, e, sticky, sh) ==
    Val({ Val({ IF BBitLen(q1) > MantBits THEN Fin(s, BShr(q1, 1), e + sh + 1)
                ELSE Fin(s, q1, e + sh) :
                q1 \in {IF c > 0 \/ (c = 0 /\ (sticky \/ BIsOdd(q)))
                        THEN BAdd(q, BOne) ELSE q} }) :
          q \in {BShr(m, sh)},
          c \in {BCmp(BSub(m, BShl(BShr(m, sh), sh)), BShl(BOne, sh - 1))} })

\* s * m * 2^e as a float64
FRound(s, m0, e, sticky) ==
    Val({ IF bl = 0 THEN Zero(s)
          ELSE IF bl <= MantBits THEN Fin(s, BShl(m, MantBits - bl), e - (MantBits - bl))
          ELSE RoundLong(s, m, e, sticky, bl - MantBits) :
          m \in {m0}, bl \in {BBitLen(m0)} })

\* float64(n) for an int n
FFromInt(n) ==
    IF n >= 0 THEN FRound(1, BFromInt(n), 0, FALSE)
    ELSE FRound(-1, BFromInt(-n), 0, FALSE)

One == FFromInt(1)

FNeg(x0) == Val({ [x EXCEPT !.s = -x.s] : x \in {x0} })

\* order of two finite values: -1, 0, 1
FinCmp(x, y) ==
    IF IsZero(x) /\ IsZero(y) THEN 0
    ELSE IF IsZero(x) THEN -y.s
    ELSE IF IsZero(y) THEN x.s
    ELSE IF x.s # y.s THEN x.s
    ELSE IF x.e # y.e THEN (IF x.e < y.e THEN -x.s ELSE x.s)
    ELSE x.s * BCmp(x.m, y.m)

\* x < y of float64: false whenever an operand is NaN
FLt(x0, y0) ==
    Val({ IF IsNaN(x) \/ IsNaN(y) THEN FALSE
          ELSE IF IsInf(x) THEN x.s = -1 /\ ~(IsInf(y) /\ y.s = -1)
          ELSE IF IsInf(y) THEN y.s = 1
          ELSE FinCmp(x, y) < 0 :
          x \in {x0}, y \in {y0} })

\* x == y of float64
FEq(x0, y0) ==
    Val({ IF IsNaN(x) \/ IsNaN(y) THEN FALSE
          ELSE IF IsInf(x) \/ IsInf(y) THEN IsInf(x) /\ IsInf(y) /\ x.s = y.s
          ELSE FinCmp(x, y) = 0 :
          x \in {x0}, y \in {y0} })

FLe(x, y) == FLt(x, y) \/ FEq(x, y)

\* two finite nonzero values added, big the one with the larger exponent, on
\* a common exponent e: mb and ms are the two significands there
FinAddAt(big, sml, mb, ms, e) ==
    IF big.s = sml.s THEN FRound(big.s, BAdd(mb, ms), e, FALSE)
    ELSE Val({ IF c = 0 THEN Zero(1)
               ELSE IF c > 0 THEN FRound(big.s, BSub(mb, ms), e, FALSE)
               ELSE FRound(sml.s, BSub(ms, mb), e, FALSE) :
               c \in {BCmp(mb, ms)} })

\* Operands more than MantBits + 8 binary places apart: the small one only
\* decides the direction of rounding.
FinAdd(big, sml) ==
    IF big.e - sml.e > MantBits + 8
    THEN FinAddAt(big, sml, BShl(big.m, 3), BOne, big.e - 3)
    ELSE Val({ FinAddAt(big, sml, mb, sml.m, sml.e) : mb \in {BShl(big.m, big.e - sml.e)} })

\* x + y of float64
FAdd(x0, y0) ==
    Val({ IF IsNaN(x) \/ IsNaN(y) THEN NaN
          ELSE IF IsInf(x) /\ IsInf(y) THEN (IF x.s = y.s THEN x ELSE NaN)
          ELSE IF IsInf(x) THEN x
          ELSE IF IsInf(y) THEN y
          ELSE IF IsZero(x) /\ IsZero(y) THEN (IF x.s = y.s THEN x ELSE Zero(1))
          ELSE IF IsZero(x) THEN y
          ELSE IF IsZero(y) THEN x
          ELSE IF x.e >= y.e THEN FinAdd(x, y)
          ELSE FinAdd(y, x) :
          x \in {x0}, y \in {y0} })

\* x - y of float64
FSub(x, y) == FAdd(x, FNeg(y))

\* x * y of float64
FMul(x0, y0) ==
    Val({ IF IsNaN(x) \/ IsNaN(y) THEN NaN
          ELSE IF IsInf(x) \/ IsInf(y)
          THEN (IF IsZero(x) \/ IsZero(y) THEN NaN ELSE Inf(x.s * y.s))
          ELSE IF IsZero(x) \/ IsZero(y) THEN Zero(x.s * y.s)
          ELSE FRound(x.s * y.s, BMul(x.m, y.m), x.e + y.e, FALSE) :
          x \in {x0}, y \in {y0} })

\* the quotient of two finite nonzero values: MantBits + 3 quotient bits,
\* and one more bit that tells whether a remainder is left
FinDiv(x, y) ==
    Val({ FRound(x.s * y.s, BAdd(BShl(qr[1], 1), IF qr[2] = <<>> THEN <<>> ELSE BOne),
                 x.e - y.e - (MantBits + 3) - 1, FALSE) :
          qr \in {BDivMod(BShl(x.m, MantBits + 3), y.m)} })

\* x / y of float64
FDiv(x0, y0) ==
    Val({ IF IsNaN(x) \/ IsNaN(y) THEN NaN
          ELSE IF IsInf(x) THEN (IF IsInf(y) THEN NaN ELSE Inf(x.s * y.s))
          ELSE IF IsInf(y) THEN Zero(x.s * y.s)
          ELSE IF IsZero(y) THEN (IF IsZero(x) THEN NaN ELSE Inf(x.s * y.s))
          ELSE IF IsZero(x) THEN Zero(x.s * y.s)
          ELSE FinDiv(x, y) :
          x \in {x0}, y \in {y0} })

(***************************************************************************)
(* math.Exp and math.Log2.  Both are evaluated in fixed point with         *)
(* WorkBits fraction bits and the result rounded to float64, which is the  *)
(* nearest float64 of the exact value (the library routines are accurate   *)
(* to within one unit in the last place of it).                            *)
(***************************************************************************)
FixOne == BShl(BOne, WorkBits)

\* ln 2 = sum over k >= 1 of 1 / (k * 2^k), with 16 guard bits
RECURSIVE Ln2Sum(_, _, _)
Ln2Sum(lo, hi, acc) ==
    IF lo > hi THEN acc
    ELSE IF lo = hi THEN BAdd(acc, BDivSmall(BShl(BOne, WorkBits + 16 - lo), lo))
    ELSE Val({ Ln2Sum((lo + hi) \div 2 + 1, hi, h) : h \in {Ln2Sum(lo, (lo + hi) \div 2, acc)} })

Ln2Fix == BShr(Ln2Sum(1, WorkBits + 16, <<>>), 16)

\* e^r = sum of r^i / i!, for 0 <= r < ln 2 in fixed point; ts is
\* <<term i - 1, sum of the terms before it>>
RECURSIVE ExpSeries(_, _, _, _)
ExpSeries(r, lo, hi, ts) ==
    IF lo > hi THEN ts
    ELSE IF lo = hi
    THEN (IF ts[1] = <<>> THEN ts
          ELSE <<BDivSmall(BShr(BMul(ts[1], r), WorkBits), lo), BAdd(ts[2], ts[1])>>)
    ELSE Val({ ExpSeries(r, (lo + hi) \div 2 + 1, hi, h) :
               h \in {ExpSeries(r, lo, (lo + hi) \div 2, ts)} })

\* r^i / i! < 2^-WorkBits from i = WorkBits \div 2 on
ExpFix(r) == Val({ BAdd(ts[2], ts[1]) : ts \in {ExpSeries(r, 1, WorkBits \div 2, <<FixOne, <<>>>>)} })

\* e^x for a finite nonzero x of magnitude below 2^10: x is
\* sign * (kAbs * ln 2 + rAbs) with 0 <= rAbs < ln 2, so that
\* x = k * ln 2 + r with 0 <= r < ln 2 and e^x = 2^k * e^r
FinExp(x, ln2, qr) ==
    Val({ FRound(1, ExpFix(r), k - WorkBits, TRUE) :
          k \in {IF x.s = 1 THEN BToInt(qr[1], 1)
                 ELSE IF qr[2] = <<>> THEN -BToInt(qr[1], 1)
                 ELSE -(BToInt(qr[1], 1) + 1)},
          r \in {IF x.s = 1 \/ qr[2] = <<>> THEN qr[2] ELSE BSub(ln2, qr[2])} })

\* math.Exp(x)
FExp(x0) ==
    Val({ IF IsNaN(x) THEN NaN
          ELSE IF IsInf(x) THEN (IF x.s = 1 THEN PInf ELSE Zero(1))
          ELSE IF IsZero(x) THEN One
          ELSE IF x.e + MantBits > 10 THEN (IF x.s = 1 THEN PInf ELSE Zero(1))
          ELSE IF x.e + MantBits < -WorkBits THEN One
          ELSE Val({ FinExp(x, ln2, BDivMod(IF x.e + WorkBits >= 0
                                           THEN BShl(x.m, x.e + WorkBits)
                                           ELSE BShr(x.m, -(x.e + WorkBits)), ln2)) :
                     ln2 \in {Ln2Fix} }) :
          x \in {x0} })

Log2Bits == MantBits + 11

\* the next n fraction bits of log2(y / 2^WorkBits), 1 <= y / 2^WorkBits < 2,
\* by repeated squaring; ya is <<y, the bits found so far>>
RECURSIVE Log2Frac(_, _)
Log2Frac(n, ya) ==
    IF n = 0 THEN ya
    ELSE IF n = 1
    THEN Val({ IF BBitLen(y2) > WorkBits + 1
               THEN <<BShr(y2, 1), BAdd(BShl(ya[2], 1), BOne)>>
               ELSE <<y2, BShl(ya[2], 1)>> :
               y2 \in {BShr(BMul(ya[1], ya[1]), WorkBits)} })
    ELSE Val({ Log2Frac(n - n \div 2, h) : h \in {Log2Frac(n \div 2, ya)} })

\* log2 of a finite positive x that is no power of two: ip is its binary
\* exponent and f the first Log2Bits fraction bits of the logarithm
FinLog2(ip, f) ==
    IF ip >= 0
    THEN FRound(1, BAdd(BShl(BFromInt(ip), Log2Bits), f), -Log2Bits, TRUE)
    ELSE FRound(-1, BSub(BSub(BShl(BFromInt(-ip), Log2Bits), f), BOne), -Log2Bits, TRUE)

\* math.Log2(x)
FLog2(x0) ==
    Val({ IF IsNaN(x) THEN NaN
          ELSE IF IsZero(x) THEN NInf
          ELSE IF x.s = -1 THEN NaN
          ELSE IF IsInf(x) THEN PInf
          ELSE IF x.m = BShl(BOne, MantBits - 1) THEN FFromInt(x.e + MantBits - 1)
          ELSE Val({ FinLog2(x.e + MantBits - 1, ya[2]) :
                     ya \in {Log2Frac(Log2Bits, <<BShl(x.m, WorkBits - (MantBits - 1)), <<>>>>)} }) :
          x \in {x0} })

(***************************************************************************)
(* package gcs: the query optimizer.                                       *)
(* Sums and products are evaluated left to right, each operation rounded   *)
(* on its own (no fused multiply-add).                                     *)
(***************************************************************************)
M == FFromInt(784931)

MatchBlock == 0
MatchZip == 1
MatchHash == 2

CostSort == FFromInt(130)
CostRead == FFromInt(30)
CostInsert == FFromInt(45)
CostLookup == FFromInt(30)
CostComp == FFromInt(1)
CostKey == FFromInt(3)

expQueries(q) == FMul(M, FSub(One, FExp(FDiv(FNeg(q), M))))

expReads(q, n, expQ) == FMul(FDiv(FAdd(n, One), FAdd(q, One)), expQ)

\* costZip with the cost of sorting the query left out
costZipNoSort(q, expQ, expN) ==
    FAdd(FAdd(FMul(q, CostKey),
              FMul(FAdd(expQ, expN), CostComp)),
         FMul(expN, CostRead))

costZip(q, expQ, expN) ==
    FAdd(FAdd(FAdd(FMul(q, CostKey),
                   FMul(FMul(q, FLog2(q)), CostSort)),
              FMul(FAdd(expQ, expN), CostComp)),
         FMul(expN, CostRead))

costHash(q, n, expQ) ==
    FAdd(FAdd(FMul(n, FAdd(CostInsert, CostRead)),
              FMul(expQ, CostKey)),
         FMul(expQ, CostLookup))

\* Select with the ratio of the Zip return in both returns
SelectSameRatio(cZip, cHash) ==
    IF FLt(cZip, cHash) THEN <<MatchZip, FDiv(cZip, cHash)>>
    ELSE <<MatchHash, FDiv(cZip, cHash)>>

\* the comparison and the two returns of Optimize
Select(cZip, cHash) ==
    IF FLt(cZip, cHash) THEN <<MatchZip, FDiv(cZip, cHash)>>
    ELSE <<MatchHash, FDiv(cHash, cZip)>>

\* the locals of Optimize once cZip and cHash are computed, and its results
OptimizeCosts(eQ, eN, cZ, cH) ==
    Val({ [expQ |-> eQ, expN |-> eN, cZip |-> cZ, cHash |-> cH,
           mType |-> r[1], ratio |-> r[2]] :
          r \in {Select(cZ, cH)} })

\* Optimize(querySize, filterSize): its locals at the return and its two results
Optimize(qs, fs) ==
    Val({ Val({ Val({ Val({ OptimizeCosts(eQ, eN, cZ, cH) :
                            cZ \in {costZip(Q, eQ, eN)}, cH \in {costHash(Q, N, eQ)} }) :
                      eN \in {expReads(Q, N, eQ)} }) :
                eQ \in {expQueries(Q)} }) :
          Q \in {FFromInt(qs)}, N \in {FFromInt(fs)} })

(***************************************************************************)
(* package txsort.                                                         *)
(* A transaction is [TxIn, TxOut]: the two slices of pointers of a         *)
(* wire.MsgTx.  A TxIn is [Hash, Index] (its PreviousOutPoint); a TxOut is *)
(* [id, Value, PkScript], where id names the output object: no function    *)
(* writes a field of a TxIn or TxOut, so an object is its field values,    *)
(* and a copy made by MsgTx.Copy keeps the id of the output it copies.     *)
(* chainhash.Hash is scaled down to two bytes.                             *)
(***************************************************************************)
MaxIn == 2
MaxOut == 2

Hashes == {<<0, 1>>, <<1, 0>>, <<1, 1>>}
Indexes == {0, 1}
Values == {1, 2}
PkScripts == {<<0>>, <<1>>}
Contexts == {<<0>>, <<1>>}

TxIns == [Hash : Hashes, Index : Indexes]
OutFields == [Value : Values, PkScript : PkScripts]

SeqsUpTo(S, n) == UNION {[1..k -> S] : k \in 0..n}

\* the output slices a caller builds: the i-th output is object i
TxOutSlices ==
    {[i \in 1..Len(f) |-> [id |-> i, Value |-> f[i].Value, PkScript |-> f[i].PkScript]] :
        f \in SeqsUpTo(OutFields, MaxOut)}

\* bytes.Compare(a, b)
RECURSIVE BytesCompareAt(_, _, _)
BytesCompareAt(a, b, i) ==
    IF i > Len(a) /\ i > Len(b) THEN 0
    ELSE IF i > Len(a) THEN -1
    ELSE IF i > Len(b) THEN 1
    ELSE IF a[i] < b[i] THEN -1
    ELSE IF a[i] > b[i] THEN 1
    ELSE BytesCompareAt(a, b, i + 1)

BytesCompare(a, b) == BytesCompareAt(a, b, 1)

\* the byte swapping loop of sortableInputSlice.Less, applied to one hash
ReverseHash(h) == [b \in 1..Len(h) |-> h[Len(h) + 1 - b]]

\* sortableInputSlice.Less(i, j)
InputLess(s, i, j) ==
    LET ihash == s[i].Hash
        jhash == s[j].Hash
    IN  IF ihash = jhash THEN s[i].Index < s[j].Index
        ELSE BytesCompare(ReverseHash(ihash), ReverseHash(jhash)) = -1

\* sortableOutputSlice.Less(i, j)
OutputLess(s, i, j) ==
    IF s[i].Value = s[j].Value
    THEN BytesCompare(s[i].PkScript, s[j].PkScript) < 0
    ELSE s[i].Value < s[j].Value

\* sortableOutputContextSlice.Less(i, j); an element is [TxOut, Context]
ContextLess(s, i, j) ==
    IF s[i].TxOut.Value # s[j].TxOut.Value
    THEN s[i].TxOut.Value < s[j].TxOut.Value
    ELSE LET pkScriptCmp == BytesCompare(s[i].TxOut.PkScript, s[j].TxOut.PkScript)
         IN  IF pkScriptCmp # 0 THEN pkScriptCmp = -1
             ELSE BytesCompare(s[i].Context, s[j].Context) = -1

\* Less of the sort.Interface of a slice type
Less(kind, s, i, j) ==
    IF kind = "in" THEN InputLess(s, i, j)
    ELSE IF kind = "out" THEN OutputLess(s, i, j)
    ELSE ContextLess(s, i, j)

\* Swap(i, j) of the three slice types
Swap(s, i, j) == [s EXCEPT ![i] = s[j], ![j] = s[i]]

\* sort.Sort on a slice of at most 12 elements is an insertion sort:
\*   for i := a + 1; i < b; i++ {
\*       for j := i; j > a && data.Less(j, j-1); j-- { data.Swap(j, j-1) } }
RECURSIVE InsertDown(_, _, _)
InsertDown(kind, s, j) ==
    IF j > 1 /\ Less(kind, s, j, j - 1)
    THEN InsertDown(kind, Swap(s, j, j - 1), j - 1)
    ELSE s

RECURSIVE InsertionSort(_, _, _)
InsertionSort(kind, s, i) ==
    IF i > Len(s) THEN s
    ELSE InsertionSort(kind, InsertDown(kind, s, i), i + 1)

SortSlice(kind, s) == InsertionSort(kind, s, 2)

\* sort.IsSorted: for i := n - 1; i > 0; i-- { if data.Less(i, i-1) { return false } }
SliceIsSorted(kind, s) == \A i \in 2..Len(s) : ~Less(kind, s, i, i - 1)

\* wire.MsgTx.Copy: a deep copy
Copy(t) == [TxIn |-> t.TxIn, TxOut |-> t.TxOut]

\* makeSortableOutputContextSlice(txouts, ctxts), for len(txouts) = len(ctxts)
makeSortableOutputContextSlice(txouts, cs) ==
    [i \in 1..Len(txouts) |-> [TxOut |-> txouts[i], Context |-> cs[i]]]

\* InPlaceSort(tx): the transaction afterwards
InPlaceSort(t) ==
    [TxIn |-> SortSlice("in", t.TxIn), TxOut |-> SortSlice("out", t.TxOut)]

\* Sort sorting the inputs of the copy only
SortInputsOnly(t) ==
    LET txCopy == Copy(t)
    IN  [TxIn |-> SortSlice("in", txCopy.TxIn), TxOut |-> txCopy.TxOut]

\* Sort(tx): the transaction returned
Sort(t) ==
    LET txCopy == Copy(t)
    IN  [TxIn |-> SortSlice("in", txCopy.TxIn), TxOut |-> SortSlice("out", txCopy.TxOut)]

\* IsSorted(tx)
IsSorted(t) ==
    IF ~SliceIsSorted("in", t.TxIn) THEN FALSE
    ELSE IF ~SliceIsSorted("out", t.TxOut) THEN FALSE
    ELSE TRUE

\* InPlaceContextualSort(tx, ctxts): the transaction afterwards, the contextual
\* slice that was built and sorted, and whether the call panicked.  The sort
\* swaps the elements of the slice made by makeSortableOutputContextSlice;
\* tx.TxOut is read when that slice is made and never written.
InPlaceContextualSort(t, cs) ==
    LET ins == SortSlice("in", t.TxIn)
    IN  IF Len(t.TxOut) # Len(cs)
        THEN [tx |-> [TxIn |-> ins, TxOut |-> t.TxOut], slice |-> <<>>, panic |-> TRUE]
        ELSE [tx |-> [TxIn |-> ins, TxOut |-> t.TxOut],
              slice |-> SortSlice("ctx", makeSortableOutputContextSlice(t.TxOut, cs)),
              panic |-> FALSE]

\* ContextualSort(tx, ctxts): the transaction returned (the copy), the
\* contextual slice that was built from tx.TxOut and sorted, and whether the
\* call panicked (nothing is returned then)
ContextualSort(t, cs) ==
    LET txCopy == Copy(t)
        ins == SortSlice("in", txCopy.TxIn)
    IN  IF Len(t.TxOut) # Len(cs)
        THEN [ret |-> [TxIn |-> <<>>, TxOut |-> <<>>], slice |-> <<>>, panic |-> TRUE]
        ELSE [ret |-> [TxIn |-> ins, TxOut |-> txCopy.TxOut],
              slice |-> SortSlice("ctx", makeSortableOutputContextSlice(t.TxOut, cs)),
              panic |-> FALSE]

\* IsContextualSorted(tx, ctxts): the result, and whether the call panicked
IsContextualSorted(t, cs) ==
    IF ~SliceIsSorted("in", t.TxIn) THEN [ret |-> FALSE, panic |-> FALSE]
    ELSE IF Len(t.TxOut) # Len(cs) THEN [ret |-> FALSE, panic |-> TRUE]
    ELSE IF ~SliceIsSorted("ctx", makeSortableOutputContextSlice(t.TxOut, cs))
    THEN [ret |-> FALSE, panic |-> FALSE]
    ELSE [ret |-> TRUE, panic |-> FALSE]

(***************************************************************************)
(* State.                                                                  *)
(***************************************************************************)
VARIABLES
    pc,          \* "start" before Optimize is called, "done" after it returned
    querySize,   \* arguments of Optimize
    filterSize,
    expQ,        \* locals of Optimize at its return
    expN,
    cZip,
    cHash,
    mType,       \* results of Optimize
    ratio,
    op,          \* the txsort function that was called, "none" before the call
    tx,          \* the caller's transaction
    orig,        \* the caller's transaction as it was passed
    ctxts,       \* the contexts passed
    ret,         \* the transaction returned by Sort or ContextualSort
    retBool,     \* the result of IsSorted or IsContextualSorted
    ctxSlice,    \* the contextual slice as the call left it
    panicked     \* the call panicked

optVars == <<pc, querySize, filterSize, expQ, expN, cZip, cHash, mType, ratio>>
txVars == <<op, tx, orig, ctxts, ret, retBool, ctxSlice, panicked>>
vars == <<optVars, txVars>>

NoTx == [TxIn |-> <<>>, TxOut |-> <<>>]

\* sizes the optimizer is called with: every small size, the sizes of
\* TestOptimize, the sizes next to the Zip/Hash crossover at N = 1000, and
\* the largest 32 bit int
MaxSmall == 2
QuerySizes == (0..MaxSmall) \cup {10, 60, 61, 100, 1000, 10000, 100000, 1000000, 2147483647}
FilterSizes == (0..MaxSmall) \cup {10, 100, 1000, 10000}

OptIdle ==
    /\ pc = "start"
    /\ expQ = Zero(1) /\ expN = Zero(1) /\ cZip = Zero(1) /\ cHash = Zero(1)
    /\ mType = MatchBlock /\ ratio = Zero(1)

TxIdle ==
    /\ op = "none"
    /\ ctxts = <<>> /\ ret = NoTx /\ retBool = FALSE
    /\ ctxSlice = <<>> /\ panicked = FALSE

Init ==
    /\ querySize \in QuerySizes
    /\ filterSize \in FilterSizes
    /\ OptIdle
    /\ tx = NoTx /\ orig = NoTx
    /\ TxIdle

InitTx ==
    /\ querySize = 0 /\ filterSize = 0
    /\ OptIdle
    /\ tx \in [TxIn : SeqsUpTo(TxIns, MaxIn), TxOut : TxOutSlices]
    /\ orig = tx
    /\ TxIdle

CallOptimize ==
    /\ pc = "start"
    /\ \E r \in {Optimize(querySize, filterSize)} :
           /\ expQ' = r.expQ
           /\ expN' = r.expN
           /\ cZip' = r.cZip
           /\ cHash' = r.cHash
           /\ mType' = r.mType
           /\ ratio' = r.ratio
    /\ pc' = "done"
    /\ UNCHANGED <<querySize, filterSize, txVars>>

CallInPlaceSort ==
    /\ op = "none"
    /\ op' = "InPlaceSort"
    /\ tx' = InPlaceSort(tx)
    /\ UNCHANGED <<orig, ctxts, ret, retBool, ctxSlice, panicked, optVars>>

CallSort ==
    /\ op = "none"
    /\ op' = "Sort"
    /\ ret' = Sort(tx)
    /\ UNCHANGED <<tx, orig, ctxts, retBool, ctxSlice, panicked, optVars>>

CallIsSorted ==
    /\ op = "none"
    /\ op' = "IsSorted"
    /\ retBool' = IsSorted(tx)
    /\ UNCHANGED <<tx, orig, ctxts, ret, ctxSlice, panicked, optVars>>

CallInPlaceContextualSort ==
    /\ op = "none"
    /\ \E cs \in SeqsUpTo(Contexts, MaxOut) :
          LET r == InPlaceContextualSort(tx, cs)
          IN  /\ ctxts' = cs
              /\ tx' = r.tx
              /\ ctxSlice' = r.slice
              /\ panicked' = r.panic
    /\ op' = "InPlaceContextualSort"
    /\ UNCHANGED <<orig, ret, retBool, optVars>>

CallContextualSort ==
    /\ op = "none"
    /\ \E cs \in SeqsUpTo(Contexts, MaxOut) :
          LET r == ContextualSort(tx, cs)
          IN  /\ ctxts' = cs
              /\ ret' = r.ret
              /\ ctxSlice' = r.slice
              /\ panicked' = r.panic
    /\ op' = "ContextualSort"
    /\ UNCHANGED <<tx, orig, retBool, optVars>>

CallIsContextualSorted ==
    /\ op = "none"
    /\ \E cs \in SeqsUpTo(Contexts, MaxOut) :
          LET r == IsContextualSorted(tx, cs)
          IN  /\ ctxts' = cs
              /\ retBool' = r.ret
              /\ panicked' = r.panic
    /\ op' = "IsContextualSorted"
    /\ UNCHANGED <<tx, orig, ret, ctxSlice, optVars>>

Next == CallOptimize

NextTx ==
    \/ CallInPlaceSort
    \/ CallSort
    \/ CallIsSorted
    \/ CallInPlaceContextualSort
    \/ CallContextualSort
    \/ CallIsContextualSorted

Spec == Init /\ [][Next]_vars

SpecTx == InitTx /\ [][NextTx]_vars

(***************************************************************************)
(* Properties.                                                             *)
(***************************************************************************)
\* C1: whenever Optimize has returned, for every query size Q >= 0 and
\* filter size N >= 0, the tag is Zip or Hash (never Block) and the ratio r
\* satisfies 0 < r <= 1.
C1_TagAndRatioInRange ==
    pc = "done" =>
        /\ mType \in {MatchZip, MatchHash}
        /\ FLt(Zero(1), ratio)
        /\ FLe(ratio, One)

\* C2: Optimize(0, N) selects Zip for every N >= 0: the Zip cost is the
\* minimal one and Zip is the returned tag.
C2_EmptyQuerySelectsZip ==
    (pc = "done" /\ querySize = 0) =>
        /\ mType = MatchZip
        /\ FLe(cZip, cHash)

\* C3: Optimize(1, N) selects Zip for every N >= 1, and
\* Optimize(1000000, 1000) selects Hash.
C3_SmallQueryZipLargeQueryHash ==
    pc = "done" =>
        /\ (querySize = 1 /\ filterSize >= 1) => mType = MatchZip
        /\ (querySize = 1000000 /\ filterSize = 1000) => mType = MatchHash

C3_Witness ==
    /\ pc = "done"
    /\ querySize = 1
    /\ filterSize = 1000
    /\ mType = MatchZip
    /\ FLt(cZip, cHash)

\* a permutation: every element occurs as often in s as in t
Count(s, x) == Cardinality({i \in 1..Len(s) : s[i] = x})
IsPermutation(s, t) ==
    /\ Len(s) = Len(t)
    /\ \A i \in 1..Len(t) : Count(s, t[i]) = Count(t, t[i])

\* C4: Sort(tx) returns a transaction whose inputs and outputs are a
\* reordering of those of tx and for which IsSorted returns true, and tx
\* keeps its inputs and outputs in the same order.
C4_SortReturnsSortedCopy ==
    op = "Sort" =>
        /\ IsPermutation(ret.TxIn, orig.TxIn)
        /\ IsPermutation(ret.TxOut, orig.TxOut)
        /\ IsSorted(ret)
        /\ tx = orig

C4_Witness ==
    /\ op = "Sort"
    /\ ~IsSorted(orig)
    /\ ret.TxIn # orig.TxIn
    /\ ret.TxOut # orig.TxOut
    /\ IsSorted(ret)
    /\ tx = orig

\* the outputs of a transaction, each with the context it was passed with:
\* output object i was passed at position i, with ctxts[i]
WithContexts(outs) ==
    [i \in 1..Len(outs) |-> [TxOut |-> outs[i], Context |-> ctxts[outs[i].id]]]

\* non-decreasing by value, then pkScript, then context
ContextualOrder(outs) == SliceIsSorted("ctx", WithContexts(outs))

\* C5: ContextualSort(tx, ctxts), with one context per output, returns a
\* transaction whose inputs are in BIP 69 order and whose outputs are in
\* non-decreasing order by value, then pkScript, then paired context; the
\* passed transaction is not modified.
C5_ContextualSortSorts ==
    (op = "ContextualSort" /\ ~panicked) =>
        /\ SliceIsSorted("in", ret.TxIn)
        /\ ContextualOrder(ret.TxOut)
        /\ tx = orig

\* C6: after InPlaceContextualSort(tx, ctxts), with one context per output,
\* the inputs of tx are in BIP 69 order and the outputs of tx are in
\* non-decreasing order by value, then pkScript, then paired context.
C6_InPlaceContextualSortSorts ==
    (op = "InPlaceContextualSort" /\ ~panicked) =>
        /\ SliceIsSorted("in", tx.TxIn)
        /\ ContextualOrder(tx.TxOut)

====
